---- MODULE Spec2Model ----
(***************************************************************************)
(* Model of the manifest validator (src/scripts/logger.js: logger module   *)
(* and validator script) and of the PR comment publisher                   *)
(* (src/unnamed/part_000).                                                  *)
(*                                                                         *)
(* Five specifications share the module:                                    *)
(*   SpecLocator  the Error Locator's pure functions on raw manifest text  *)
(*   SpecEntry    validateAssets and checkServerStatus on one manifest     *)
(*   SpecMain     the orchestrator main() over a servers directory         *)
(*   SpecRender   the publisher's log parsing and rendering                *)
(*   SpecPublish  the publisher run against a review thread                *)
(* Variables that a specification does not use keep their idle value.      *)
(***************************************************************************)
EXTENDS Integers, Sequences, FiniteSets, TLC

VARIABLES
  \* ---- Error Locator
  text,          \* raw manifest text: a sequence of characters
  index,         \* offset handed to getLineAndColumnFromIndex (-1: not called)
  located,       \* its result
  instancePath,  \* path handed to findPropertySnippet (sequence of segments)
  snippetInfo,   \* its result
  \* ---- one manifest entry (validateAssets, checkServerStatus)
  manifest,      \* what manifest.json holds
  assetsCall,    \* validateAssets: its return value and findings
  statusCall,    \* checkServerStatus: response, return value, findings, requests
  \* ---- orchestrator main()
  dirs,          \* servers/: what each name is on disk
  argv,          \* the --folders= argument
  pc,            \* main's position
  selected,      \* manifestFiles once discovery and filtering are done
  queue,         \* manifestFiles still to be checked by the loop
  allValid,      \* the aggregate flag
  manifestValid, \* this iteration's validateManifest result
  assetsValid,   \* this iteration's validateAssets result
  statusRet,     \* this iteration's checkServerStatus result
  curDoc,        \* what this iteration's manifest.json holds
  results,       \* per checked entry: manifestValid and assetsValid
  emitted,       \* findings logged so far
  exitCode,      \* process exit status (-1 while running)
  \* ---- comment publisher
  validationLog, \* validation-output.log
  imagesLog,     \* images-output.log
  checkedEnv,    \* process.env.CHECKED_FOLDERS
  comment,       \* the rendered document
  thread,        \* the review thread's comments, oldest first
  runs           \* what each publish run did

locVars == <<text, index, located, instancePath, snippetInfo>>
entVars == <<manifest, assetsCall, statusCall>>

mainVars == <<dirs, argv, pc, selected, queue, allValid, manifestValid, assetsValid,
              statusRet, curDoc, results, emitted, exitCode>>

pubVars == <<validationLog, imagesLog, checkedEnv, comment, thread, runs>>

vars == <<locVars, entVars, mainVars, pubVars>>

NotCalled == [called |-> FALSE]

Max(a, b) == IF a >= b THEN a ELSE b
Min(a, b) == IF a <= b THEN a ELSE b

(***************************************************************************)
(* Error Locator                                                           *)
(***************************************************************************)

\* Longest raw text explored.
MaxLen == 8

CR == "\r"
LF == "\n"
\* "k" stands for the quoted key of the violating property ("prop", in any
\* letter case), ":" for a colon; CR and LF are the only whitespace drawn.
Chars == {"k", ":", CR, LF}

RECURSIVE SeqsUpTo(_, _)
SeqsUpTo(S, n) ==
  IF n = 0 THEN {<<>>}
  ELSE LET shorter == SeqsUpTo(S, n - 1)
       IN  shorter \cup {Append(s, c) : s \in {t \in shorter : Len(t) = n - 1}, c \in S}

Texts == SeqsUpTo(Chars, MaxLen)

\* text.split(/\r?\n/): the pieces between line breaks, a break being LF or
\* CR immediately followed by LF.  `from` is the first character (1-based) of
\* the piece being collected, `i` the scan position.
RECURSIVE SplitFrom(_, _, _)
SplitFrom(t, from, i) ==
  IF i > Len(t) THEN << SubSeq(t, from, Len(t)) >>
  ELSE IF t[i] = LF
       THEN LET last == IF i - 1 >= from /\ t[i - 1] = CR THEN i - 2 ELSE i - 1
            IN  << SubSeq(t, from, last) >> \o SplitFrom(t, i + 1, i + 1)
       ELSE SplitFrom(t, from, i + 1)

SplitLines(t) == SplitFrom(t, 1, 1)

\* The loop of getLineAndColumnFromIndex, from line i (0-based) with `count`
\* characters attributed to the lines before it.
RECURSIVE LineColLoop(_, _, _, _)
LineColLoop(lines, idx, i, count) ==
  IF i >= Len(lines)
  THEN [line |-> Len(lines),
        column |-> Max(1, Len(lines[Len(lines)])),
        lineText |-> lines[Len(lines)]]
  ELSE LET lineLen == Len(lines[i + 1]) + 1
       IN  IF idx < count + lineLen
           THEN [line |-> i + 1, column |-> idx - count + 1, lineText |-> lines[i + 1]]
           ELSE LineColLoop(lines, idx, i + 1, count + lineLen)

getLineAndColumnFromIndex(t, idx) == LineColLoop(SplitLines(t), idx, 0, 0)

\* The for loop of getSnippetAroundIndex: the 0-based line at which it stops.
RECURSIVE SnippetLineLoop(_, _, _, _)
SnippetLineLoop(lines, idx, lineNum, charCount) ==
  IF lineNum >= Len(lines) THEN lineNum
  ELSE LET nextCount == charCount + Len(lines[lineNum + 1]) + 1
       IN  IF idx < nextCount THEN lineNum
           ELSE SnippetLineLoop(lines, idx, lineNum + 1, nextCount)

\* A snippet row `${String(n).padStart(4)} | ${l}` is kept as the pair of the
\* printed number and the line's text.
getSnippetAroundIndex(t, idx0, contextLines) ==
  LET lines     == SplitLines(t)
      idx       == Max(0, Min(idx0, Len(t)))
      lineNum   == SnippetLineLoop(lines, idx, 0, 0)
      startLine == Max(0, lineNum - contextLines)
      endLine   == Min(Len(lines) - 1, lineNum + contextLines)
  IN  [found   |-> TRUE,
       line    |-> lineNum + 1,
       snippet |-> [i \in 1..Max(0, endLine - startLine + 1) |->
                      [num |-> startLine + i, text |-> lines[startLine + i]]]]

IsSpace(c) == c \in {CR, LF}

\* Whether /"prop"\s*:/i matches at 0-based offset p: the key, any run of
\* whitespace, a colon.
RECURSIVE SpaceThenColon(_, _)
SpaceThenColon(t, j) ==
  IF j > Len(t) THEN FALSE
  ELSE IF t[j] = ":" THEN TRUE
  ELSE IF IsSpace(t[j]) THEN SpaceThenColon(t, j + 1)
  ELSE FALSE

MatchesAt(t, prop, p) == p + 1 <= Len(t) /\ t[p + 1] = prop /\ SpaceThenColon(t, p + 2)

\* manifestText.match(regex): offsets of the first match, or the empty set.
MatchIndex(t, prop) ==
  LET hits == {p \in 0..(Len(t) - 1) : MatchesAt(t, prop, p)}
  IN  IF hits = {} THEN {} ELSE {CHOOSE p \in hits : \A q \in hits : p <= q}

NoSnippet == [found |-> FALSE]

\* instancePath.split("/").filter(Boolean): the non-empty segments.
PathParts(path) == SelectSeq(path, LAMBDA s : s # "")

findPropertySnippet(manifestText, path) ==
  LET parts == PathParts(path)
  IN  IF parts = <<>> THEN NoSnippet
      ELSE LET prop  == parts[Len(parts)]
               match == MatchIndex(manifestText, prop)
           IN  IF match = {} THEN NoSnippet
               ELSE getSnippetAroundIndex(manifestText, CHOOSE p \in match : TRUE, 2)

\* Instance paths tried: segments are the key "k", a property "z" that the
\* text never holds, or empty (a doubled or trailing slash).
Segments == {"k", "z", ""}
MaxPath == 2
InstancePaths == SeqsUpTo(Segments, MaxPath)


(***************************************************************************)
(* One manifest entry: what the file holds, the asset files beside it, and *)
(* the status API's answer.                                                *)
(***************************************************************************)

\* Longest "server-address" array explored.
MaxAddr == 2

Addresses == {"a1", "a2"}
\* encodeURIComponent(undefined): the address requested when the field is absent.
Undefined == "undefined"

\* An asset path of the assets object: not declared (absent or falsy), a
\* string naming a file that exists / does not exist, or a truthy non-string.
AssetStates == {"undeclared", "exists", "missing", "nonstring"}

\* manifest.assets: absent (or falsy), or truthy with its two paths.
AssetSections ==
  {[present |-> FALSE, icon |-> "undeclared", background |-> "undeclared"]}
  \cup [present : {TRUE}, icon : AssetStates, background : AssetStates]

\* manifest.edition: absent (or falsy), a string, or a truthy non-string.
Editions == {"none", "java", "bedrock", "Bedrock", "nonstring"}

\* manifest["server-address"]: absent, an array, or a single string.
AddressFields ==
  {[kind |-> "absent", items |-> <<>>]}
  \cup {[kind |-> "array", items |-> a] : a \in SeqsUpTo(Addresses, MaxAddr)}
  \cup {[kind |-> "scalar", items |-> <<a>>] : a \in Addresses}

NoAssets == [present |-> FALSE, icon |-> "undeclared", background |-> "undeclared"]
NoAddress == [kind |-> "absent", items |-> <<>>]

\* manifest.json: unreadable, not JSON, the JSON value null, or a JSON value
\* with the fields the checks read.
Manifests ==
  {[doc |-> d, assets |-> NoAssets, edition |-> "none", address |-> NoAddress] :
     d \in {"unreadable", "badjson", "null"}}
  \cup [doc : {"value"}, assets : AssetSections, edition : Editions, address : AddressFields]

Parsed(m) == m.doc \in {"null", "value"}

Finding(level, what) == [level |-> level, what |-> what]

\* reportError / reportWarning: the level the logger is called with.
reportError(what) == Finding("error", what)
reportWarning(what) == Finding("warn", what)

\* validateAssets without the background check (lines 343-351 dropped).
validateAssetsIconOnly(m) ==
  IF m.doc # "value" THEN [ret |-> FALSE, findings |-> <<>>]
  ELSE IF ~m.assets.present
       THEN [ret |-> FALSE, findings |-> <<reportError("no-assets")>>]
  ELSE IF m.assets.icon = "nonstring" THEN [ret |-> FALSE, findings |-> <<>>]
  ELSE [ret |-> m.assets.icon # "missing",
        findings |-> IF m.assets.icon = "missing" THEN <<reportError("icon")>> ELSE <<>>]

\* validateAssets: [ret, findings].  JSON.parse(readFileSync) throwing, the
\* property read on null throwing, or path.join throwing on a non-string all
\* end in the catch, which returns false with what was reported so far.
validateAssets(m) ==
  IF m.doc # "value" THEN [ret |-> FALSE, findings |-> <<>>]
  ELSE IF ~m.assets.present
       THEN [ret |-> FALSE, findings |-> <<reportError("no-assets")>>]
  ELSE IF m.assets.icon = "nonstring" THEN [ret |-> FALSE, findings |-> <<>>]
  ELSE LET iconBad  == m.assets.icon = "missing"
           iconFind == IF iconBad THEN <<reportError("icon")>> ELSE <<>>
       IN  IF m.assets.background = "nonstring"
           THEN [ret |-> FALSE, findings |-> iconFind]
           ELSE LET bgBad == m.assets.background = "missing"
                IN  [ret |-> ~iconBad /\ ~bgBad,
                     findings |-> iconFind \o
                                  (IF bgBad THEN <<reportError("background")>> ELSE <<>>)]

\* What the status API request ends in: no response (timeout, network
\* error), a body that is not JSON, the JSON value null, or an object with
\* `online` and a message of the day.
MotdStates == {"none", "clean_plain", "clean_keyword", "raw_plain", "raw_keyword",
               "clean_notarray"}
Responses ==
  {[kind |-> k, online |-> FALSE, motd |-> "none"] : k \in {"timeout", "neterror", "badjson", "null"}}
  \cup [kind : {"json"}, online : BOOLEAN, motd : MotdStates]

\* The catch of the request block reporting an error and failing the check.
ProbeFailedAsError == [ret |-> FALSE, findings |-> <<reportError("probe-failed")>>]

\* The catch of the request block (lines 452-461).
ProbeFailed == [ret |-> TRUE, findings |-> <<reportWarning("probe-failed")>>]

\* Lines 404-451: what is reported for a response, and the return value.
HandleResponse(r) ==
  IF r.kind # "json" THEN ProbeFailed
  ELSE IF ~r.online THEN [ret |-> TRUE, findings |-> <<reportWarning("offline")>>]
  ELSE IF r.motd = "clean_notarray" THEN ProbeFailed
  ELSE IF r.motd \in {"clean_keyword", "raw_keyword"}
       THEN [ret |-> TRUE, findings |-> <<reportWarning("maintenance")>>]
  ELSE [ret |-> TRUE, findings |-> <<>>]

\* serverAddresses (lines 368-370): the array itself, else the value wrapped.
ServerAddresses(a) ==
  IF a.kind = "array" THEN a.items
  ELSE IF a.kind = "scalar" THEN a.items
  ELSE <<Undefined>>

Skipped == [ret |-> TRUE, findings |-> <<>>, requests |-> <<>>]

\* checkServerStatus: [ret, findings, requests], requests being the addresses
\* an HTTPS GET was issued for.
checkServerStatus(m, r) ==
  IF m.doc # "value" THEN Skipped
  ELSE IF m.edition = "nonstring" THEN Skipped
  ELSE IF m.edition \in {"bedrock", "Bedrock"} THEN Skipped
  ELSE LET serverAddresses == ServerAddresses(m.address)
       IN  IF Len(serverAddresses) = 0 THEN Skipped
           ELSE LET handled == HandleResponse(r)
                IN  [ret |-> handled.ret, findings |-> handled.findings,
                     requests |-> <<serverAddresses[1]>>]

(***************************************************************************)
(* Orchestrator                                                            *)
(***************************************************************************)

\* Entries of servers/ in readdirSync order.
DirOrder == <<"alpha", "beta">>
DirNames == {DirOrder[i] : i \in 1..Len(DirOrder)}
\* An entry is a plain file, a directory without manifest.json, or a
\* directory with one.
DirKinds == {"file", "nomanifest", "manifest"}

\* Most comma-separated items in the --folders= value.
MaxFolders == 2
\* An item, once trimmed (line 497), is a folder name or empty.
FolderItems == DirNames \cup {""}
\* process.argv: no --folders= argument, or one whose value splits into items
\* (the empty value splits into the one empty item).
Argvs ==
  {[given |-> FALSE, items |-> <<>>]}
  \cup {[given |-> TRUE, items |-> l] : l \in SeqsUpTo(FolderItems, MaxFolders) \ {<<>>}}

\* Lines 491-500: filterFolders, null unless the value is a non-empty string.
ParseFolders(a) ==
  IF a.given /\ a.items # <<"">>
  THEN [set |-> TRUE,
        names |-> SelectSeq(a.items, LAMBDA f : f # "")]
  ELSE [set |-> FALSE, names |-> <<>>]

Includes(list, x) == \E i \in 1..Len(list) : list[i] = x

\* findManifestFiles: directories with and without manifest.json, in order.
findManifestFiles(d) ==
  [manifests |-> SelectSeq(DirOrder, LAMBDA e : d[e] = "manifest"),
   missing   |-> SelectSeq(DirOrder, LAMBDA e : d[e] = "nomanifest")]

\* Lines 505-511: the manifests the loop will check.
ManifestFiles(filterFolders, allManifests) ==
  IF filterFolders.set /\ Len(filterFolders.names) > 0
  THEN SelectSeq(allManifests, LAMBDA e : Includes(filterFolders.names, e))
  ELSE allManifests

\* Lines 526-528: the directories reported as missing their manifest.
RelevantMissing(filterFolders, missingManifests) ==
  IF filterFolders.set
  THEN SelectSeq(missingManifests, LAMBDA e : Includes(filterFolders.names, e))
  ELSE missingManifests

\* What the local schema override is: none or valid JSON Schema that the
\* manifest satisfies / violates, or one that cannot be read or compiled.
SchemaStates == {"satisfied", "violated", "unloadable"}

\* validateManifest: [ret, threw, findings] for a manifest whose relative
\* path passes the character check or not.
validateManifest(pathOk, doc, schema) ==
  IF ~pathOk THEN [ret |-> FALSE, threw |-> FALSE, findings |-> <<Finding("error", "bad-path")>>]
  ELSE IF doc = "unreadable"
       THEN [ret |-> FALSE, threw |-> FALSE, findings |-> <<Finding("error", "read-failed")>>]
  ELSE IF doc = "badjson"
       THEN [ret |-> FALSE, threw |-> FALSE, findings |-> <<Finding("error", "syntax")>>]
  ELSE IF schema = "unloadable"
       THEN [ret |-> FALSE, threw |-> TRUE, findings |-> <<>>]
  ELSE IF schema = "violated"
       THEN [ret |-> FALSE, threw |-> FALSE,
             findings |-> <<reportError("validation-failed"), reportError("schema")>>]
  ELSE [ret |-> TRUE, threw |-> FALSE, findings |-> <<>>]

\* Lines 546-548, with allValid overwritten instead of only ever cleared.
AggregateOverwrite(flag, mv, av) == mv /\ av

\* Lines 546-548: the flag after one entry.
Aggregate(flag, mv, av) == IF ~mv \/ ~av THEN FALSE ELSE flag

\* The findings of one call, as logged for directory d.
Emit(origin, d, findings) ==
  {[level |-> findings[i].level, origin |-> origin, dir |-> d] : i \in 1..Len(findings)}

MissingError(d) == [level |-> "error", origin |-> "missing-manifest", dir |-> d]

IdleMain ==
  /\ dirs = [e \in DirNames |-> "file"]
  /\ argv = [given |-> FALSE, items |-> <<>>]
  /\ pc = "idle"
  /\ selected = <<>>
  /\ queue = <<>>
  /\ allValid = TRUE
  /\ manifestValid = FALSE
  /\ assetsValid = FALSE
  /\ statusRet = FALSE
  /\ curDoc = "none"
  /\ results = {}
  /\ emitted = {}
  /\ exitCode = -1

(***************************************************************************)
(* Comment publisher                                                       *)
(***************************************************************************)

\* Longest validation-output.log and images-output.log explored, in tokens.
MaxLogLen == 3
MaxImgLen == 2

WARN == "[warn]"
ERROR == "[error]"
\* A log is a sequence of tokens: the two tags, a blank, other text, a line feed.
LogTokens == {WARN, ERROR, " ", "x", LF}

\* A log file: missing, or present with its content.
LogFiles(n) ==
  {[exists |-> FALSE, content |-> <<>>]}
  \cup {[exists |-> TRUE, content |-> c] : c \in SeqsUpTo(LogTokens, n)}

\* Lines 10-20: the file's text, or the placeholder when it cannot be read.
ReadLog(file, placeholder) == IF file.exists THEN file.content ELSE <<placeholder>>

\* The end (exclusive) of the line that position i is on.
RECURSIVE LineEnd(_, _)
LineEnd(c, i) == IF i > Len(c) \/ c[i] = LF THEN i ELSE LineEnd(c, i + 1)

\* content.match(/\[tag\].*$/gm) || []: from position i on, each match runs
\* from a tag to the end of its line, and the search resumes after it.
RECURSIVE MatchFrom(_, _, _)
MatchFrom(c, tag, i) ==
  IF i > Len(c) THEN <<>>
  ELSE IF c[i] = tag
       THEN LET e == LineEnd(c, i)
            IN  << SubSeq(c, i, e - 1) >> \o MatchFrom(c, tag, e)
       ELSE MatchFrom(c, tag, i + 1)

MatchTag(c, tag) == MatchFrom(c, tag, 1)

\* Lines 22-26 with the image log's errors left out of allErrors.
CollectValidationOnly(validationOutput, imagesOutput) ==
  [warnings  |-> MatchTag(validationOutput, WARN),
   allErrors |-> MatchTag(validationOutput, ERROR)]

\* Lines 22-26: warnings, and allErrors = [...errors, ...imageErrors].
Collect(validationOutput, imagesOutput) ==
  [warnings  |-> MatchTag(validationOutput, WARN),
   allErrors |-> MatchTag(validationOutput, ERROR) \o MatchTag(imagesOutput, ERROR)]

RECURSIVE DropSpaces(_)
DropSpaces(c) == IF c # <<>> /\ Head(c) = " " THEN DropSpaces(Tail(c)) ELSE c

\* str.replace(/\[tag\]\s*/, ''): the first tag and the blanks after it removed.
RECURSIVE StripTag(_, _)
StripTag(c, tag) ==
  IF c = <<>> THEN <<>>
  ELSE IF Head(c) = tag THEN DropSpaces(Tail(c))
  ELSE <<Head(c)>> \o StripTag(Tail(c), tag)

\* A piece of the rendered Markdown.
Piece(kind, body) == [kind |-> kind, body |-> body]
Title == Piece("title", <<>>)              \* '## 🔍 Validation Results\n\n'
Banner == Piece("banner", <<>>)            \* '✅ **All checks passed!** ...'
ErrorsHeading == Piece("errors", <<>>)     \* '### ❌ Errors\n\n'
WarningsHeading == Piece("warnings", <<>>) \* '### ⚠️ Warnings\n\n'
Blank == Piece("blank", <<>>)              \* '\n'
Rule == Piece("rule", <<>>)                \* '---\n'

Bullets(kind, matches, tag) ==
  [i \in 1..Len(matches) |-> Piece(kind, StripTag(matches[i], tag))]

\* Line 28.
CheckedFolders(env) == IF env = "" THEN "N/A" ELSE env

\* Lines 7-55: the comment body.
Render(vlog, ilog, env) ==
  LET found == Collect(ReadLog(vlog, "No validation output"),
                       ReadLog(ilog, "No image validation output"))
  IN  <<Title>>
      \o (IF Len(found.allErrors) = 0 /\ Len(found.warnings) = 0
          THEN <<Banner>>
          ELSE (IF Len(found.allErrors) > 0
                THEN <<ErrorsHeading>> \o Bullets("error-bullet", found.allErrors, ERROR)
                     \o <<Blank>>
                ELSE <<>>)
               \o (IF Len(found.warnings) > 0
                   THEN <<WarningsHeading>> \o Bullets("warning-bullet", found.warnings, WARN)
                        \o <<Blank>>
                   ELSE <<>>))
      \o <<Rule, Piece("footer", <<CheckedFolders(env)>>)>>

\* Most comments other people post on the thread, and most comments it holds
\* before the first publish run.
MaxPosted == 31
MaxInitial == 2
\* Most publish runs against one thread.
MaxRuns == 2

\* Comments the REST API returns per page when the request names no
\* per_page: listComments is called once, without per_page or page.
PerPage == 30

\* Bodies other authors write: plain text, or text quoting the comment title.
PlainBody == <<Piece("text", <<>>)>>
QuotingBody == <<Piece("quoted-title", <<>>)>>

\* comment.body.includes('🔍 Validation Results')
ContainsMarker(body) == \E i \in 1..Len(body) : body[i].kind \in {"title", "quoted-title"}

Comment(id, type, body) == [id |-> id, type |-> type, body |-> body]

\* Lines 57-61: the first page of the thread's comments.
listComments(t) == SubSeq(t, 1, Min(Len(t), PerPage))

\* Lines 63-66: the first comment of the page written by a bot and holding
\* the marker, as a set of at most one position.
FindBotComment(comments) ==
  LET hits == {i \in 1..Len(comments) :
                 comments[i].type = "Bot" /\ ContainsMarker(comments[i].body)}
  IN  IF hits = {} THEN {} ELSE {CHOOSE i \in hits : \A j \in hits : i <= j}

\* Lines 70-75.
updateComment(t, id, body) ==
  [i \in 1..Len(t) |-> IF t[i].id = id THEN [t[i] EXCEPT !.body = body] ELSE t[i]]

\* Lines 78-83: the new comment is written by the workflow's token, a Bot.
createComment(t, body) == Append(t, Comment(Len(t) + 1, "Bot", body))

\* The log files and environment of a publish run.
Clean == [exists |-> TRUE, content |-> <<>>]
LogSamples ==
  {[vlog |-> Clean, ilog |-> Clean, env |-> "alpha"],
   [vlog |-> [exists |-> TRUE, content |-> <<ERROR, " ", "x">>], ilog |-> Clean, env |-> "alpha"]}

MarkerCount(t) == Cardinality({i \in 1..Len(t) : ContainsMarker(t[i].body)})
BotCount(t) == Cardinality({i \in 1..Len(t) : t[i].type = "Bot"})

EnvValues == {"", "alpha"}

IdlePublisher ==
  /\ validationLog = [exists |-> FALSE, content |-> <<>>]
  /\ imagesLog = [exists |-> FALSE, content |-> <<>>]
  /\ checkedEnv = ""
  /\ comment = <<>>
  /\ thread = <<>>
  /\ runs = <<>>

IdleEntry ==
  /\ manifest = [doc |-> "unreadable", assets |-> NoAssets, edition |-> "none",
                 address |-> NoAddress]
  /\ assetsCall = NotCalled
  /\ statusCall = NotCalled

IdleLocator ==
  /\ text = <<>>
  /\ index = -1
  /\ located = NotCalled
  /\ instancePath = <<>>
  /\ snippetInfo = NotCalled

InitLocator ==
  /\ text \in Texts
  /\ index = -1
  /\ located = NotCalled
  /\ instancePath = <<>>
  /\ snippetInfo = NotCalled
  /\ IdleEntry
  /\ IdleMain
  /\ IdlePublisher

\* validateManifest handles one manifest text on exactly one of two paths: a
\* parse failure returns before the schema check.
\* Syntax-error path: locate offset o of the text.
Locate ==
  /\ located = NotCalled /\ snippetInfo = NotCalled
  /\ \E o \in 0..Len(text) :
       /\ index' = o
       /\ located' = getLineAndColumnFromIndex(text, o)
  /\ UNCHANGED <<text, instancePath, snippetInfo, entVars, mainVars, pubVars>>

\* Schema-violation path: locate the violating property.
FindSnippet ==
  /\ located = NotCalled /\ snippetInfo = NotCalled
  /\ \E p \in InstancePaths :
       /\ instancePath' = p
       /\ snippetInfo' = findPropertySnippet(text, p)
  /\ UNCHANGED <<text, index, located, entVars, mainVars, pubVars>>

NextLocator == Locate \/ FindSnippet

SpecLocator == InitLocator /\ [][NextLocator]_vars

InitEntry ==
  /\ manifest \in Manifests
  /\ assetsCall = NotCalled
  /\ statusCall = NotCalled
  /\ IdleLocator
  /\ IdleMain
  /\ IdlePublisher

ValidateAssets ==
  /\ assetsCall = NotCalled
  /\ assetsCall' = validateAssets(manifest)
  /\ UNCHANGED <<manifest, statusCall, locVars, mainVars, pubVars>>

CheckServerStatus ==
  /\ statusCall = NotCalled
  /\ \E r \in Responses :
       statusCall' = [response |-> r] @@ checkServerStatus(manifest, r)
  /\ UNCHANGED <<manifest, assetsCall, locVars, mainVars, pubVars>>

NextEntry == ValidateAssets \/ CheckServerStatus

SpecEntry == InitEntry /\ [][NextEntry]_vars

InitMain ==
  /\ dirs \in [DirNames -> DirKinds]
  /\ argv \in Argvs
  /\ pc = "start"
  /\ selected = <<>>
  /\ queue = <<>>
  /\ allValid = TRUE
  /\ manifestValid = FALSE
  /\ assetsValid = FALSE
  /\ statusRet = FALSE
  /\ curDoc = "none"
  /\ results = {}
  /\ emitted = {}
  /\ exitCode = -1
  /\ IdleLocator
  /\ IdleEntry
  /\ IdlePublisher

\* process.exit(code), with what has been logged by then.
Exit(code, log) ==
  /\ pc' = "exited"
  /\ exitCode' = code
  /\ emitted' = log

\* Lines 490-534: arguments, discovery, filter, the two early exits and the
\* missing-manifest errors.
Start ==
  /\ pc = "start"
  /\ LET filterFolders == ParseFolders(argv)
         found         == findManifestFiles(dirs)
         manifestFiles == ManifestFiles(filterFolders, found.manifests)
         relevant      == RelevantMissing(filterFolders, found.missing)
     IN  IF filterFolders.set /\ Len(filterFolders.names) > 0 /\ manifestFiles = <<>>
         THEN /\ Exit(0, emitted)
              /\ UNCHANGED <<selected, queue, allValid>>
         ELSE IF manifestFiles = <<>> /\ found.missing = <<>>
         THEN /\ Exit(1, emitted \cup {[level |-> "error", origin |-> "no-manifests", dir |-> ""]})
              /\ UNCHANGED <<selected, queue, allValid>>
         ELSE /\ selected' = manifestFiles
              /\ queue' = manifestFiles
              /\ allValid' = (relevant = <<>>)
              /\ emitted' = emitted \cup {MissingError(relevant[i]) : i \in 1..Len(relevant)}
              /\ pc' = IF manifestFiles = <<>> THEN "finish" ELSE "validate"
              /\ UNCHANGED exitCode
  /\ UNCHANGED <<dirs, argv, manifestValid, assetsValid, statusRet, curDoc, results>>
  /\ UNCHANGED <<locVars, entVars, pubVars>>

\* Line 541.  A throw leaves main() rejected: the catch of lines 560-563 logs
\* the error and exits 1.
ValidateManifestStep ==
  /\ pc = "validate"
  /\ \E pathOk \in BOOLEAN, doc \in {"unreadable", "badjson", "null", "value"},
        schema \in SchemaStates :
       LET r == validateManifest(pathOk, doc, schema)
           d == Head(queue)
       IN  IF r.threw
           THEN /\ Exit(1, emitted \cup {[level |-> "error", origin |-> "unexpected", dir |-> d]})
                /\ UNCHANGED <<manifestValid, curDoc>>
           ELSE /\ manifestValid' = r.ret
                /\ curDoc' = doc
                /\ emitted' = emitted \cup Emit("validateManifest", d, r.findings)
                /\ pc' = "assets"
                /\ UNCHANGED exitCode
  /\ UNCHANGED <<dirs, argv, selected, queue, allValid, assetsValid, statusRet, results>>
  /\ UNCHANGED <<locVars, entVars, pubVars>>

\* Line 542.  The manifest is the file validateManifest read; only the
\* fields this call reads are drawn here.
ValidateAssetsStep ==
  /\ pc = "assets"
  /\ \E m \in {x \in Manifests : x.doc = curDoc /\ x.edition = "none" /\ x.address = NoAddress} :
       LET r == validateAssets(m)
       IN  /\ assetsValid' = r.ret
           /\ emitted' = emitted \cup Emit("validateAssets", Head(queue), r.findings)
  /\ pc' = "status"
  /\ UNCHANGED <<dirs, argv, selected, queue, allValid, manifestValid, statusRet, curDoc,
                 results, exitCode>>
  /\ UNCHANGED <<locVars, entVars, pubVars>>

\* Line 544.
CheckServerStatusStep ==
  /\ pc = "status"
  /\ \E m \in {x \in Manifests : x.doc = curDoc /\ x.assets = NoAssets}, r \in Responses :
       LET st == checkServerStatus(m, r)
       IN  /\ statusRet' = st.ret
           /\ emitted' = emitted \cup Emit("checkServerStatus", Head(queue), st.findings)
  /\ pc' = "aggregate"
  /\ UNCHANGED <<dirs, argv, selected, queue, allValid, manifestValid, assetsValid, curDoc,
                 results, exitCode>>
  /\ UNCHANGED <<locVars, entVars, pubVars>>

\* Lines 546-549 and the loop's advance.
AggregateStep ==
  /\ pc = "aggregate"
  /\ allValid' = Aggregate(allValid, manifestValid, assetsValid)
  /\ results' = results \cup {[dir |-> Head(queue), manifestValid |-> manifestValid,
                               assetsValid |-> assetsValid]}
  /\ queue' = Tail(queue)
  /\ pc' = IF Tail(queue) = <<>> THEN "finish" ELSE "validate"
  /\ UNCHANGED <<dirs, argv, selected, manifestValid, assetsValid, statusRet, curDoc,
                 emitted, exitCode>>
  /\ UNCHANGED <<locVars, entVars, pubVars>>

\* Lines 551-556.
Finish ==
  /\ pc = "finish"
  /\ Exit(IF allValid THEN 0 ELSE 1, emitted)
  /\ UNCHANGED <<dirs, argv, selected, queue, allValid, manifestValid, assetsValid,
                 statusRet, curDoc, results>>
  /\ UNCHANGED <<locVars, entVars, pubVars>>

NextMain ==
  \/ Start
  \/ ValidateManifestStep
  \/ ValidateAssetsStep
  \/ CheckServerStatusStep
  \/ AggregateStep
  \/ Finish

SpecMain == InitMain /\ [][NextMain]_vars

InitRender ==
  /\ validationLog \in LogFiles(MaxLogLen)
  /\ imagesLog \in LogFiles(MaxImgLen)
  /\ checkedEnv \in EnvValues
  /\ comment = <<>>
  /\ thread = <<>>
  /\ runs = <<>>
  /\ IdleLocator
  /\ IdleEntry
  /\ IdleMain

\* Lines 7-55 of the publisher.
RenderComment ==
  /\ comment = <<>>
  /\ comment' = Render(validationLog, imagesLog, checkedEnv)
  /\ UNCHANGED <<validationLog, imagesLog, checkedEnv, thread, runs>>
  /\ UNCHANGED <<locVars, entVars, mainVars>>

NextRender == RenderComment

SpecRender == InitRender /\ [][NextRender]_vars

\* The thread before the first run: comments of users and of other bots, with
\* or without the marker text.
InitialThreads ==
  LET bodies == SeqsUpTo({"User", "Bot"} \X {PlainBody, QuotingBody}, MaxInitial)
  IN  {[i \in 1..Len(b) |-> Comment(i, b[i][1], b[i][2])] : b \in bodies}

InitPublish ==
  /\ validationLog = [exists |-> FALSE, content |-> <<>>]
  /\ imagesLog = [exists |-> FALSE, content |-> <<>>]
  /\ checkedEnv = ""
  /\ comment = <<>>
  /\ thread \in InitialThreads
  /\ runs = <<>>
  /\ IdleLocator
  /\ IdleEntry
  /\ IdleMain

\* Somebody comments on the pull request.
PostComment ==
  /\ Len(thread) < MaxPosted
  /\ thread' = Append(thread, Comment(Len(thread) + 1, "User", PlainBody))
  /\ UNCHANGED <<validationLog, imagesLog, checkedEnv, comment, runs>>
  /\ UNCHANGED <<locVars, entVars, mainVars>>

\* One run of the publisher (lines 4-85) on the log files of a CI run.
Publish ==
  /\ Len(runs) < MaxRuns
  /\ \E in \in LogSamples :
       LET body       == Render(in.vlog, in.ilog, in.env)
           comments   == listComments(thread)
           botComment == FindBotComment(comments)
           found      == botComment # {}
           id         == IF found THEN comments[CHOOSE i \in botComment : TRUE].id
                         ELSE Len(thread) + 1
           after      == IF found THEN updateComment(thread, id, body)
                         ELSE createComment(thread, body)
       IN  /\ validationLog' = in.vlog
           /\ imagesLog' = in.ilog
           /\ checkedEnv' = in.env
           /\ comment' = body
           /\ thread' = after
           /\ runs' = Append(runs, [op |-> IF found THEN "update" ELSE "create",
                                    id |-> id, input |-> in, body |-> body,
                                    lenBefore |-> Len(thread), lenAfter |-> Len(after),
                                    markersBefore |-> MarkerCount(thread),
                                    botsBefore |-> BotCount(thread),
                                    botsAfter |-> BotCount(after)])
  /\ UNCHANGED <<locVars, entVars, mainVars>>

NextPublish == PostComment \/ Publish

SpecPublish == InitPublish /\ [][NextPublish]_vars

\* ---- Reference positions, computed from the text alone.
\* Number of line feeds before 0-based offset o.
BreaksBefore(t, o) == Cardinality({i \in 1..Min(o, Len(t)) : t[i] = LF})
\* 1-based line that holds offset o (a line's own terminator belongs to it).
TrueLine(t, o) == 1 + BreaksBefore(t, o)
\* 0-based offset at which the line holding offset o starts.
TrueLineStart(t, o) ==
  LET lfs == {i \in 1..Min(o, Len(t)) : t[i] = LF}
  IN  IF lfs = {} THEN 0 ELSE CHOOSE i \in lfs : \A j \in lfs : j <= i

\* Line breaks are all LF, or all CRLF.
UniformBreaks(t) ==
  \/ \A i \in 1..Len(t) : t[i] # CR
  \/ /\ \A i \in 1..Len(t) : t[i] = LF => (i > 1 /\ t[i - 1] = CR)
     /\ \A i \in 1..Len(t) : t[i] = CR => (i < Len(t) /\ t[i + 1] = LF)

\* C7: for every text with LF or CRLF line breaks and every offset o in
\* 0..text.length, getLineAndColumnFromIndex returns the 1-based line that
\* holds offset o, between 1 and the number of lines, and the 1-based column
\* c >= 1 with character c-1 of that line being the character at offset o.
C7_OffsetToPosition ==
  (located # NotCalled /\ UniformBreaks(text)) =>
    /\ located.line >= 1 /\ located.line <= Len(SplitLines(text))
    /\ located.line = TrueLine(text, index)
    /\ located.column >= 1
    /\ located.column = index - TrueLineStart(text, index) + 1

\* The statement of C7 for texts whose line breaks are all LF: it holds.
C7_OffsetToPosition_LF ==
  (located # NotCalled /\ \A i \in 1..Len(text) : text[i] # CR) =>
    /\ located.line >= 1 /\ located.line <= Len(SplitLines(text))
    /\ located.line = TrueLine(text, index)
    /\ located.column >= 1
    /\ located.column = index - TrueLineStart(text, index) + 1

\* The window of lines within two lines of 1-based line L, each with its number.
WindowAround(t, L) ==
  LET lines == SplitLines(t)
      lo    == Max(1, L - 2)
      hi    == Min(Len(lines), L + 2)
  IN  [i \in 1..Max(0, hi - lo + 1) |-> [num |-> lo + i - 1, text |-> lines[lo + i - 1]]]

KeyOffset(t, path) == CHOOSE p \in MatchIndex(t, PathParts(path)[Len(PathParts(path))]) : TRUE

C10_SnippetLocation_LF ==
  (snippetInfo # NotCalled /\ snippetInfo.found /\ \A i \in 1..Len(text) : text[i] # CR) =>
    /\ snippetInfo.line >= 1 /\ snippetInfo.line <= Len(SplitLines(text))
    /\ snippetInfo.line = TrueLine(text, KeyOffset(text, instancePath))
    /\ snippetInfo.snippet = WindowAround(text, snippetInfo.line)

(***************************************************************************)
(* Claims about one manifest entry (SpecEntry)                             *)
(***************************************************************************)

Declared(a) == a # "undeclared"
AllDeclaredExist(m) ==
  /\ Declared(m.assets.icon) => m.assets.icon = "exists"
  /\ Declared(m.assets.background) => m.assets.background = "exists"

\* The findings owed for the asset files that do not exist, icon first.
MissingAssetFindings(m) ==
  (IF m.assets.icon = "missing" THEN <<Finding("error", "icon")>> ELSE <<>>)
  \o (IF m.assets.background = "missing" THEN <<Finding("error", "background")>> ELSE <<>>)

AssetCheckerContract ==
  /\ assetsCall.ret = (manifest.assets.present /\ AllDeclaredExist(manifest))
  /\ ~manifest.assets.present =>
       /\ assetsCall.ret = FALSE
       /\ \E i \in 1..Len(assetsCall.findings) : assetsCall.findings[i].level = "error"
  /\ manifest.assets.present => assetsCall.findings = MissingAssetFindings(manifest)

\* C9 as stated: for a readable, parseable manifest, validateAssets returns
\* true iff the assets section is present and every declared asset path
\* resolves to an existing file; it returns false with an error finding when
\* the section is absent, and false with one error finding per declared asset
\* file that does not exist.
C9_AssetChecker_AsStated ==
  (assetsCall # NotCalled /\ Parsed(manifest)) => AssetCheckerContract

StringPaths(m) == m.assets.icon # "nonstring" /\ m.assets.background # "nonstring"

\* C9 (amended): the same, for a readable manifest that parses to a JSON
\* value other than null and whose declared asset paths are strings.
C9_AssetChecker ==
  (assetsCall # NotCalled /\ manifest.doc = "value" /\ StringPaths(manifest))
    => AssetCheckerContract

\* C9 witness: an entry whose icon is missing and whose background exists
\* has been checked and was rejected.
C9_Witness ==
  /\ assetsCall # NotCalled
  /\ manifest.doc = "value" /\ manifest.assets.present
  /\ manifest.assets.icon = "missing" /\ manifest.assets.background = "exists"
  /\ assetsCall.ret = FALSE

IsBedrock(m) == m.edition \in {"bedrock", "Bedrock"}
HasNoAddress(m) == m.address.kind = "absent" \/ (m.address.kind = "array" /\ m.address.items = <<>>)

\* C6: checkServerStatus issues no request and returns true when the edition
\* is bedrock (in any letter case) or the manifest has no server address
\* (field absent, or an empty array); for every other entry it issues at most
\* one request, to the first server address.
C6_ProbeSkipping ==
  (statusCall # NotCalled /\ manifest.doc = "value") =>
    IF IsBedrock(manifest) \/ HasNoAddress(manifest)
    THEN statusCall.requests = <<>> /\ statusCall.ret = TRUE
    ELSE /\ Len(statusCall.requests) <= 1
         /\ statusCall.requests # <<>> => statusCall.requests[1] = manifest.address.items[1]

(***************************************************************************)
(* Claims about the orchestrator (SpecMain)                                *)
(***************************************************************************)

\* A directory is in scope when no filter is given, or when the filter names it.
InScope(d) ==
  LET f == ParseFolders(argv) IN f.set => Includes(f.names, d)

InScopeMissing == {d \in DirNames : dirs[d] = "nomanifest" /\ InScope(d)}

Passed(d) == \E r \in results : r.dir = d /\ r.manifestValid /\ r.assetsValid
Checked(d) == \E r \in results : r.dir = d

ExitStatusRule ==
  (pc = "exited" /\ selected # <<>>) =>
    /\ exitCode \in {0, 1}
    /\ (exitCode = 0) <=>
         /\ \A i \in 1..Len(selected) : Passed(selected[i])
         /\ InScopeMissing = {}

\* C3: in a run that selects at least one manifest, main exits 0 iff every
\* selected entry passed validateManifest and validateAssets and no in-scope
\* directory lacks its manifest.json, and exits 1 otherwise; allValid starts
\* true, is only ever cleared, and decides the exit status.
C3_ExitStatus ==
  /\ []ExitStatusRule
  /\ [][(~allValid => ~allValid') /\ (pc = "finish" => exitCode' = IF allValid THEN 0 ELSE 1)]_vars

\* C3 witness: two manifests were selected, both passed, and main exited 0.
C3_Witness ==
  /\ pc = "exited" /\ exitCode = 0 /\ Len(selected) = 2
  /\ \A i \in 1..Len(selected) : Passed(selected[i])

ErrorsOf(origin) == {f \in emitted : f.origin = origin /\ f.level = "error"}

\* C4: checkServerStatus resolves to true whatever the probe's outcome,
\* reports nothing above warning level, and leaves the run's exit status what
\* the other checks make it: the status check neither changes allValid nor
\* ends the run.
C4_ProbeNeverFails ==
  /\ [](ErrorsOf("checkServerStatus") = {})
  /\ [][pc = "status" =>
          /\ statusRet' = TRUE
          /\ allValid' = allValid
          /\ pc' = "aggregate" /\ exitCode' = exitCode
          /\ \A f \in emitted' \ emitted : f.origin = "checkServerStatus" /\ f.level = "warn"]_vars
  /\ [](pc = "exited" /\ selected # <<>> /\ (\A i \in 1..Len(selected) : Checked(selected[i]))
          => (exitCode = 0) <=> (InScopeMissing = {} /\ \A i \in 1..Len(selected) : Passed(selected[i])))

\* C4 witness: the probe of an entry ended in a warning, and the run, all of
\* whose entries passed, exited 0.
C4_Witness ==
  /\ pc = "exited" /\ exitCode = 0 /\ selected # <<>>
  /\ \E f \in emitted : f.origin = "checkServerStatus" /\ f.level = "warn"

\* C5: every in-scope directory without manifest.json gets a
\* "Missing manifest.json" error, the other in-scope entries are still
\* checked, and the run exits 1.
C5_MissingManifest ==
  pc = "exited" =>
    \A d \in InScopeMissing :
      /\ MissingError(d) \in emitted
      /\ exitCode = 1
      /\ \A e \in DirNames : (dirs[e] = "manifest" /\ InScope(e)) => Checked(e)

(***************************************************************************)
(* Claims about the rendered comment (SpecRender)                          *)
(***************************************************************************)

\* A missing log file holds no lines.
FileText(f) == IF f.exists THEN f.content ELSE <<>>

HasTag(c, tag) == \E i \in 1..Len(c) : c[i] = tag

\* Position i holds the first `tag` of its line.
FirstTagOfLine(c, tag, i) ==
  /\ c[i] = tag
  /\ \A j \in 1..(i - 1) : c[j] = tag => \E k \in j..i : c[k] = LF

\* The text after position i up to the end of its line, leading blanks dropped.
TextAfter(c, i) ==
  LET ends  == {k \in i..Len(c) : c[k] = LF}
      e     == IF ends = {} THEN Len(c) + 1 ELSE CHOOSE k \in ends : \A l \in ends : k <= l
      rest  == SubSeq(c, i + 1, e - 1)
      solid == {k \in 1..Len(rest) : rest[k] # " "}
  IN  IF solid = {} THEN <<>>
      ELSE SubSeq(rest, CHOOSE k \in solid : \A l \in solid : k <= l, Len(rest))

RECURSIVE TextsFrom(_, _, _)
TextsFrom(c, tag, i) ==
  IF i > Len(c) THEN <<>>
  ELSE (IF FirstTagOfLine(c, tag, i) THEN <<TextAfter(c, i)>> ELSE <<>>)
       \o TextsFrom(c, tag, i + 1)

\* One text per line that holds `tag`, in file order.
TaggedTexts(f, tag) == TextsFrom(FileText(f), tag, 1)

HasPiece(doc, piece) == \E i \in 1..Len(doc) : doc[i] = piece
PieceIndex(doc, piece) == CHOOSE i \in 1..Len(doc) : doc[i] = piece
BulletTexts(doc, kind) ==
  LET bullets == SelectSeq(doc, LAMBDA x : x.kind = kind)
  IN  [i \in 1..Len(bullets) |-> bullets[i].body]

\* The rendering contract, for the error texts and warning texts owed.
RenderingContract(doc, errorTexts, warningTexts) ==
  /\ HasPiece(doc, Banner) <=> (errorTexts = <<>> /\ warningTexts = <<>>)
  /\ HasPiece(doc, Banner) => ~HasPiece(doc, ErrorsHeading) /\ ~HasPiece(doc, WarningsHeading)
  /\ ~HasPiece(doc, Banner) =>
       /\ HasPiece(doc, ErrorsHeading) <=> errorTexts # <<>>
       /\ HasPiece(doc, WarningsHeading) <=> warningTexts # <<>>
  /\ (HasPiece(doc, ErrorsHeading) /\ HasPiece(doc, WarningsHeading)) =>
       /\ PieceIndex(doc, ErrorsHeading) < PieceIndex(doc, WarningsHeading)
       /\ \A i, j \in 1..Len(doc) :
            (doc[i].kind = "error-bullet" /\ doc[j].kind = "warning-bullet") => i < j
  /\ BulletTexts(doc, "error-bullet") = errorTexts
  /\ BulletTexts(doc, "warning-bullet") = warningTexts
  /\ doc[Len(doc)].kind = "footer"

\* C8 as stated: warning and error lines are taken from both log files; the
\* banner shows exactly when neither file holds a tagged line; else an Errors
\* section iff an error line was found, a Warnings section iff a warning line
\* was found, errors first, one bullet per tagged line with the tag stripped,
\* the footer last; a missing file holds no tagged lines.
C8_Rendering_AsStated ==
  comment # <<>> =>
    RenderingContract(comment,
                      TaggedTexts(validationLog, ERROR) \o TaggedTexts(imagesLog, ERROR),
                      TaggedTexts(validationLog, WARN) \o TaggedTexts(imagesLog, WARN))

\* C8 (amended): the same, with warning lines taken from the validation log
\* only; error lines are taken from both files.
C8_Rendering ==
  comment # <<>> =>
    RenderingContract(comment,
                      TaggedTexts(validationLog, ERROR) \o TaggedTexts(imagesLog, ERROR),
                      TaggedTexts(validationLog, WARN))

\* C8 witness: a document rendered from a validation log with a warning line
\* and an image log with an error line shows both sections.
C8_Witness ==
  /\ comment # <<>>
  /\ HasTag(FileText(validationLog), WARN) /\ HasTag(FileText(imagesLog), ERROR)
  /\ HasPiece(comment, ErrorsHeading) /\ HasPiece(comment, WarningsHeading)

(***************************************************************************)
(* Claims about the publisher's runs (SpecPublish)                         *)
(***************************************************************************)

\* C1: after each publish run exactly one comment bearing the marker exists
\* on the thread, and a run creates a comment only when none bearing the
\* marker is present.  Stated here for the threads that hold no
\* marker-bearing comment before the first run.
C1_SingleComment ==
  (runs # <<>> /\ runs[1].markersBefore = 0) =>
    /\ MarkerCount(thread) = 1
    /\ \A r \in 1..Len(runs) : runs[r].op = "create" => runs[r].markersBefore = 0

\* C2: from a thread with zero bot comments, two runs in sequence with the
\* same log content leave one bot comment after the first run (created) and,
\* after the second, that same comment (same id, updated in place, no second
\* create) with the body of the first run.
C2_Idempotence ==
  (/\ Len(runs) = 2
   /\ runs[1].botsBefore = 0
   /\ runs[2].lenBefore = runs[1].lenAfter
   /\ runs[2].input = runs[1].input) =>
    /\ runs[1].op = "create" /\ runs[1].botsAfter = 1
    /\ runs[2].op = "update" /\ runs[2].id = runs[1].id
    /\ runs[2].botsAfter = 1
    /\ \E i \in 1..Len(thread) : thread[i].id = runs[1].id /\ thread[i].body = runs[1].body

====
